---- MODULE Spec2Model ----
(***************************************************************************)
(* Market Data Archivist (src/market_archivist.py): the trade-day          *)
(* resolver, the ingestion engine over the bars / trade_days tables and    *)
(* the annotation ledger, as a state machine over one SQLite database.     *)
(*                                                                         *)
(* Conventions                                                             *)
(*   - a timestamp is an integer number of Unix epoch seconds;             *)
(*   - a calendar date string "YYYY-MM-DD" is the integer YYYYMMDD, whose  *)
(*     numeric order is the lexicographic order of the zero-padded string; *)
(*   - a price or volume is an integer number of half-thousandths          *)
(*     (0.0005), so that the tolerance 0.001 is 2 units and differences    *)
(*     below, at and above the tolerance all exist;                        *)
(*   - SQL NULL and Python None are the integer -1, which is no row id,    *)
(*     no timestamp and no date of the model.                              *)
(***************************************************************************)
EXTENDS Integers, Sequences, FiniteSets, TLC

VARIABLES
    db,        \* the committed database: trade_days, bars, day_annotations
    conn,      \* the open connection's view of it (uncommitted writes included)
    pc,        \* "idle", "ingest" (in ingest_csv's loop), "supersede" (after
               \* the INSERT of save_day_annotation) or "save" (before its commit)
    call,      \* the running call's arguments
    pos,       \* 1-based index of the next CSV row of the running ingest_csv
    stats,     \* the running ingest_csv's stats dict
    last,      \* what the most recent call returned or raised
    before,    \* the committed database when the most recent call began
    first,     \* stats of the previous ingest_csv when the running one repeats it
    ncalls,    \* number of ingest_csv calls begun
    nsaves,    \* number of save_day_annotation calls begun
    clock,     \* the wall clock at the most recent save_day_annotation
    env,       \* what the callers work with, fixed at start: the rows the
               \* data source exports (feed), the notes the analyst saves
               \* (desk), the (symbol, source) pairs ingested under (pairs)
    rts,       \* resolver harness: the timestamp handed to resolve_trade_day
    rres,      \* resolver harness: its outcome, or "pending"
    wr,        \* shared database: each writer's connection (its position,
               \* the key it asks for, what its SELECT found, its view)
    lock,      \* shared database: the writer holding SQLite's write lock, 0
               \* when it is free
    inits      \* shared database: the calls of init_database made on the
               \* existing file and whether the last one raised

vars == <<db, conn, pc, call, pos, stats, last, before, first, ncalls, nsaves,
          clock, env, rts, rres, wr, lock, inits>>

NULL == 0 - 1

-----------------------------------------------------------------------------
(* Local time in America/Los_Angeles                                       *)

SecondsPerHour == 3600
SecondsPerDay == 86400

\* tz database, America/Los_Angeles, 2024: PDT from 2024-03-10T10:00:00Z
\* until 2024-11-03T09:00:00Z, PST otherwise.
DstStart2024 == 1710064800
DstEnd2024 == 1730624400
PstOffsetHours == 8
PdtOffsetHours == 7

UtcOffset(ts) ==
    IF ts >= DstStart2024 /\ ts < DstEnd2024
    THEN 0 - PdtOffsetHours * SecondsPerHour
    ELSE 0 - PstOffsetHours * SecondsPerHour

\* Proleptic Gregorian date of a day number (days since 1970-01-01), as
\* datetime.date computes it: the day number is shifted to count from
\* 0000-03-01, split into its 400-year era and the day of the era, then into
\* the year of the era, the day of the year and the month counted from March.
DaysPerEra == 146097
DaysToEpoch == 719468

CivilDate(y, m, d) ==
    [year |-> y + (IF m <= 2 THEN 1 ELSE 0), month |-> m, day |-> d]

CivilFromMp(y, doy, mp) ==
    CivilDate(y, IF mp < 10 THEN mp + 3 ELSE mp - 9,
              doy - (153 * mp + 2) \div 5 + 1)

CivilFromDoy(y, doy) == CivilFromMp(y, doy, (5 * doy + 2) \div 153)

CivilFromYoe(era, doe, yoe) ==
    CivilFromDoy(yoe + era * 400,
                 doe - (365 * yoe + yoe \div 4 - yoe \div 100))

CivilFromDoe(era, doe) ==
    CivilFromYoe(era, doe,
        (doe - doe \div 1460 + doe \div 36524 - doe \div 146096) \div 365)

CivilFromShifted(z) == CivilFromDoe(z \div DaysPerEra, z % DaysPerEra)

CivilFromDays(days) == CivilFromShifted(days + DaysToEpoch)

\* Day number of a proleptic Gregorian date: the inverse.
DaysFromDoe(era, doe) == era * DaysPerEra + doe - DaysToEpoch

DaysFromYoe(era, yoe, doy) ==
    DaysFromDoe(era, yoe * 365 + yoe \div 4 - yoe \div 100 + doy)

DaysFromShifted(y, mp, d) ==
    DaysFromYoe(y \div 400, y % 400, (153 * mp + 2) \div 5 + d - 1)

DaysFromCivil(y, m, d) ==
    DaysFromShifted(IF m <= 2 THEN y - 1 ELSE y,
                    IF m > 2 THEN m - 3 ELSE m + 9, d)

\* The fields of a datetime: a date, its day number and the second of the day.
DateTime(c, days, sod) ==
    [year |-> c.year, month |-> c.month, day |-> c.day,
     hour |-> sod \div SecondsPerHour,
     minute |-> (sod % SecondsPerHour) \div 60,
     second |-> sod % 60,
     ordinal |-> days]

\* The datetime whose wall clock, read as UTC, is loc seconds after the epoch.
WallDateTime(loc) ==
    DateTime(CivilFromDays(loc \div SecondsPerDay), loc \div SecondsPerDay,
             loc % SecondsPerDay)

\* datetime.datetime.fromtimestamp(timestamp, tz=PT_TIMEZONE)
get_pt_datetime(timestamp) == WallDateTime(timestamp + UtcOffset(timestamp))

\* datetime.weekday(): Monday is 0, Saturday is 5 (1970-01-01 was a Thursday).
weekday(dt) == (dt.ordinal + 3) % 7

SATURDAY == 5
HALT_HOUR == 14
RESUME_HOUR == 15

\* "%Y-%m-%d" of a date
DateString(c) == c.year * 10000 + c.month * 100 + c.day

\* date.strftime("%Y-%m-%d") of the date with the given day number
strftime(days) == DateString(CivilFromDays(days))

is_saturday(timestamp) == weekday(get_pt_datetime(timestamp)) = SATURDAY

\* is_halt_period with the halt hour closed at 15:00 instead of open.
is_halt_period_closed(timestamp) ==
    get_pt_datetime(timestamp).hour \in {HALT_HOUR, RESUME_HOUR}

is_halt_period(timestamp) == get_pt_datetime(timestamp).hour = HALT_HOUR

\* The outcome of resolve_trade_day: a trade day, None (halt) or the
\* ValueError raised for a Saturday.
TradeDay(d) == [kind |-> "day", date |-> d]
Halt == [kind |-> "halt", date |-> NULL]
InvalidSession == [kind |-> "error", date |-> NULL]
Pending == [kind |-> "pending", date |-> NULL]

\* Lines 69-77: the trade day of a datetime outside the halt.
TradeDayAt(dt) ==
    IF dt.hour >= RESUME_HOUR
    THEN TradeDay(strftime(dt.ordinal + 1))
    ELSE TradeDay(strftime(dt.ordinal))

\* resolve_trade_day without the roll to the next calendar day.
resolve_trade_day_no_roll(timestamp) ==
    IF is_saturday(timestamp) THEN InvalidSession
    ELSE IF is_halt_period(timestamp) THEN Halt
    ELSE TradeDay(strftime(get_pt_datetime(timestamp).ordinal))

\* resolve_trade_day rolling to the next calendar day from noon on.
resolve_trade_day_noon(timestamp) ==
    IF is_saturday(timestamp) THEN InvalidSession
    ELSE IF is_halt_period(timestamp) THEN Halt
    ELSE IF get_pt_datetime(timestamp).hour >= 12
         THEN TradeDay(strftime(get_pt_datetime(timestamp).ordinal + 1))
         ELSE TradeDay(strftime(get_pt_datetime(timestamp).ordinal))

\* resolve_trade_day testing the halt before the Saturday.
resolve_trade_day_halt_first(timestamp) ==
    IF is_halt_period(timestamp) THEN Halt
    ELSE IF is_saturday(timestamp) THEN InvalidSession
    ELSE TradeDayAt(get_pt_datetime(timestamp))

resolve_trade_day(timestamp) ==
    IF is_saturday(timestamp) THEN InvalidSession
    ELSE IF is_halt_period(timestamp) THEN Halt
    ELSE TradeDayAt(get_pt_datetime(timestamp))

-----------------------------------------------------------------------------
(* CSV rows and their parsing                                              *)

\* A time string: "YYYY-MM-DD HH:MM:SS" (form "plain"), ISO 8601 with a 'T'
\* and a UTC offset of off hours (form "iso"), ISO 8601 with a 'T' and no
\* offset (form "isonaive"), or text in no accepted format ("garbage").
PlainTime(y, m, d, hh, mm, ss) ==
    [form |-> "plain", civil |-> <<y, m, d, hh, mm, ss>>, off |-> 0]
IsoTime(y, m, d, hh, mm, ss, off) ==
    [form |-> "iso", civil |-> <<y, m, d, hh, mm, ss>>, off |-> off]
IsoNaiveTime(y, m, d, hh, mm, ss) ==
    [form |-> "isonaive", civil |-> <<y, m, d, hh, mm, ss>>, off |-> 0]
GarbageTime == [form |-> "garbage", civil |-> <<>>, off |-> 0]

\* The wall-clock fields read as if they were UTC.
WallSeconds(civil) ==
    DaysFromCivil(civil[1], civil[2], civil[3]) * SecondsPerDay
        + civil[4] * SecondsPerHour + civil[5] * 60 + civil[6]

\* utcoffset() of a naive wall time given tzinfo=PT_TIMEZONE (fold = 0): a
\* wall time in the spring gap keeps PST, an ambiguous autumn one keeps PDT.
WallOffset(wall) ==
    IF /\ wall >= DstStart2024 - PdtOffsetHours * SecondsPerHour
       /\ wall < DstEnd2024 - PdtOffsetHours * SecondsPerHour
    THEN 0 - PdtOffsetHours * SecondsPerHour
    ELSE 0 - PstOffsetHours * SecondsPerHour

\* The epoch seconds of a wall time in PT.
WallToEpoch(wall) == wall - WallOffset(wall)

\* dt.replace(tzinfo=PT_TIMEZONE).timestamp()
PtTimestamp(civil) == WallToEpoch(WallSeconds(civil))

\* A parse either yields a value or raises ValueError.
Parsed(v) == [ok |-> TRUE, val |-> v]
ValueError == [ok |-> FALSE, val |-> 0]

\* parse_tradingview_timestamp
parse_tradingview_timestamp(time_str) ==
    IF time_str.form = "iso"
    THEN Parsed(WallSeconds(time_str.civil) - time_str.off * SecondsPerHour)
    ELSE IF time_str.form \in {"isonaive", "plain"}
         THEN Parsed(PtTimestamp(time_str.civil))
         ELSE ValueError

\* The else branch of ingest_csv's timestamp parsing (source other than
\* "tradingview"): strptime with "%Y-%m-%d %H:%M:%S" only.
parse_other_timestamp(time_str) ==
    IF time_str.form = "plain"
    THEN Parsed(PtTimestamp(time_str.civil))
    ELSE ValueError

TRADINGVIEW == "tradingview"

parse_timestamp(row, source) ==
    IF source = TRADINGVIEW
    THEN parse_tradingview_timestamp(row.time)
    ELSE parse_other_timestamp(row.time)

\* A CSV cell: a number (its value in half-thousandths), the empty string,
\* or text that is no number.
Num(n) == [text |-> "num", val |-> n]
EmptyCell == [text |-> "", val |-> 0]
NotANumber == [text |-> "n/a", val |-> 0]

\* float(cell)
ParseFloat(cell) == IF cell.text = "num" THEN Parsed(cell.val) ELSE ValueError

\* volume = float(volume_str) if volume_str else 0.0
ParseVolume(cell) == IF cell = EmptyCell THEN Parsed(0) ELSE ParseFloat(cell)

\* The parsed bar, ok = FALSE when any of the conversions raised.
ParsedBar(ts, o, h, l, c, v) ==
    [ok |-> ts.ok /\ o.ok /\ h.ok /\ l.ok /\ c.ok /\ v.ok,
     timestamp |-> ts.val, open |-> o.val, high |-> h.val, low |-> l.val,
     close |-> c.val, volume |-> v.val]

\* Lines 240-258 of ingest_csv: the timestamp and the five numbers of a row.
ParseRow(row, source) ==
    ParsedBar(parse_timestamp(row, source), ParseFloat(row.open),
              ParseFloat(row.high), ParseFloat(row.low),
              ParseFloat(row.close), ParseVolume(row.volume))

-----------------------------------------------------------------------------
(* The database                                                            *)

\* The three tables after init_database, each a sequence of rows in rowid
\* order; a row's id is its position (INTEGER PRIMARY KEY, nothing deleted).
EmptyDb == [trade_days |-> <<>>, bars |-> <<>>, day_annotations |-> <<>>]

\* cursor.fetchone() of a SELECT whose WHERE clause the rows at the indexes
\* hits satisfy: the first of them, 0 when there is none.
FirstIndex(hits) ==
    IF hits = {} THEN 0 ELSE CHOOSE i \in hits : \A j \in hits : i <= j

\* Lines 162-167: the INSERT into trade_days and its lastrowid.
CreateTradeDay(symbol, session_date, source, store) ==
    [id |-> Len(store.trade_days) + 1,
     store |-> [store EXCEPT !.trade_days =
                   Append(@, [id |-> Len(store.trade_days) + 1,
                              symbol |-> symbol,
                              session_date |-> session_date,
                              source |-> source])]]

\* Lines 153-157: the SELECT of the trade day's row.
FindTradeDay(symbol, session_date, source, store) ==
    FirstIndex({i \in 1..Len(store.trade_days) :
                   /\ store.trade_days[i].symbol = symbol
                   /\ store.trade_days[i].session_date = session_date
                   /\ store.trade_days[i].source = source})

\* get_or_create_trade_day without its SELECT: a row is inserted every time.
get_or_create_trade_day_no_select(symbol, session_date, source, store) ==
    CreateTradeDay(symbol, session_date, source, store)

\* get_or_create_trade_day: the id and the store after the call.
get_or_create_trade_day(symbol, session_date, source, store) ==
    IF FindTradeDay(symbol, session_date, source, store) # 0
    THEN [id |-> store.trade_days[
                     FindTradeDay(symbol, session_date, source, store)].id,
          store |-> store]
    ELSE CreateTradeDay(symbol, session_date, source, store)

-----------------------------------------------------------------------------
(* ingest_csv                                                              *)

\* The tolerance 0.001 of the OHLCV comparison, in half-thousandths.
Tolerance == 2

Abs(x) == IF x < 0 THEN 0 - x ELSE x

\* The comparison with the close left out.
SameOHLCV_no_close(existing, bar) ==
    /\ Abs(existing.open - bar.open) < Tolerance
    /\ Abs(existing.high - bar.high) < Tolerance
    /\ Abs(existing.low - bar.low) < Tolerance
    /\ Abs(existing.volume - bar.volume) < Tolerance

\* The comparison with a difference of exactly the tolerance accepted.
SameOHLCV_inclusive(existing, bar) ==
    /\ Abs(existing.open - bar.open) <= Tolerance
    /\ Abs(existing.high - bar.high) <= Tolerance
    /\ Abs(existing.low - bar.low) <= Tolerance
    /\ Abs(existing.close - bar.close) <= Tolerance
    /\ Abs(existing.volume - bar.volume) <= Tolerance

\* The five-field comparison of lines 305-309.
SameOHLCV(existing, bar) ==
    /\ Abs(existing.open - bar.open) < Tolerance
    /\ Abs(existing.high - bar.high) < Tolerance
    /\ Abs(existing.low - bar.low) < Tolerance
    /\ Abs(existing.close - bar.close) < Tolerance
    /\ Abs(existing.volume - bar.volume) < Tolerance

OHLCV(r) == [open |-> r.open, high |-> r.high, low |-> r.low,
             close |-> r.close, volume |-> r.volume]

EmptyStats == [inserted |-> 0, skipped |-> 0, conflicts |-> 0,
               conflict_details |-> <<>>]

NoError == [kind |-> "none", timestamp |-> NULL, file |-> <<>>]

\* The SELECT keyed by (trade_day_id, timestamp) for halt bars too: their
\* trade_day_id is NULL, which equals nothing in SQL.
ExistingBar_session_key(bars, halt_period, trade_day_id, timestamp) ==
    IF halt_period = 1
    THEN 0
    ELSE FirstIndex({i \in 1..Len(bars) :
                        /\ bars[i].trade_day_id = trade_day_id
                        /\ bars[i].timestamp = timestamp})

\* The lookup by timestamp alone, whatever session the stored bar is under.
ExistingBar_timestamp_only(bars, halt_period, trade_day_id, timestamp) ==
    FirstIndex({i \in 1..Len(bars) : bars[i].timestamp = timestamp})

\* The SELECT of lines 288-297: which stored bar the incoming one is
\* compared with.
ExistingBar(bars, halt_period, trade_day_id, timestamp) ==
    FirstIndex({i \in 1..Len(bars) :
                   IF halt_period = 1
                   THEN bars[i].timestamp = timestamp /\ bars[i].halt_period = 1
                   ELSE /\ bars[i].trade_day_id = trade_day_id
                        /\ bars[i].timestamp = timestamp})

NewStats(st, inserted, skipped, conflicts) ==
    [st EXCEPT !.inserted = @ + inserted, !.skipped = @ + skipped,
               !.conflicts = @ + conflicts]

\* InsertOrClassify where the incoming values replace the stored row's
\* (last writer wins).
InsertOrClassify_overwrite(store, st, bar, row, halt_period, trade_day_id, file) ==
    LET existing == ExistingBar(store.bars, halt_period, trade_day_id,
                                bar.timestamp)
    IN  IF existing # 0
        THEN [store |-> [store EXCEPT !.bars[existing] =
                            [@ EXCEPT !.open = bar.open, !.high = bar.high,
                                      !.low = bar.low, !.close = bar.close,
                                      !.volume = bar.volume]],
              stats |-> IF SameOHLCV(store.bars[existing], bar)
                        THEN NewStats(st, 0, 1, 0)
                        ELSE [NewStats(st, 0, 0, 1) EXCEPT
                                 !.conflict_details = Append(@,
                                    [timestamp |-> bar.timestamp,
                                     reason |-> "OHLCV mismatch",
                                     file |-> file,
                                     existing |-> OHLCV(store.bars[existing]),
                                     new |-> OHLCV(bar)])]]
        ELSE [store |-> [store EXCEPT !.bars = Append(@,
                            [id |-> Len(store.bars) + 1,
                             trade_day_id |-> trade_day_id,
                             timestamp |-> bar.timestamp,
                             open |-> bar.open, high |-> bar.high,
                             low |-> bar.low, close |-> bar.close,
                             volume |-> bar.volume,
                             halt_period |-> halt_period,
                             raw_json |-> [bar |-> OHLCV(bar),
                                           timestamp |-> bar.timestamp,
                                           source_row |-> row]])],
              stats |-> NewStats(st, 1, 0, 0)]

\* Lines 301-342: classify the parsed bar against the store and insert it
\* when it is new.
InsertOrClassify(store, st, bar, row, halt_period, trade_day_id, file) ==
    LET existing == ExistingBar(store.bars, halt_period, trade_day_id,
                                bar.timestamp)
    IN  IF existing # 0
        THEN IF SameOHLCV(store.bars[existing], bar)
             THEN [store |-> store,
                   stats |-> [st EXCEPT !.skipped = @ + 1]]
             ELSE [store |-> store,
                   stats |-> [st EXCEPT
                       !.conflicts = @ + 1,
                       !.conflict_details = Append(@,
                           [timestamp |-> bar.timestamp,
                            reason |-> "OHLCV mismatch",
                            file |-> file,
                            existing |-> OHLCV(store.bars[existing]),
                            new |-> OHLCV(bar)])]]
        ELSE [store |-> [store EXCEPT !.bars = Append(@,
                            [id |-> Len(store.bars) + 1,
                             trade_day_id |-> trade_day_id,
                             timestamp |-> bar.timestamp,
                             open |-> bar.open, high |-> bar.high,
                             low |-> bar.low, close |-> bar.close,
                             volume |-> bar.volume,
                             halt_period |-> halt_period,
                             raw_json |-> [bar |-> OHLCV(bar),
                                           timestamp |-> bar.timestamp,
                                           source_row |-> row]])],
              stats |-> [st EXCEPT !.inserted = @ + 1]]

\* The outcome of a row whose processing raised.
RowRaised(store, st, kind, timestamp, file) ==
    [raised |-> TRUE, store |-> store, stats |-> st,
     error |-> [kind |-> kind, timestamp |-> timestamp, file |-> file]]

\* RowClassified where a conflict is counted and its detail is not kept.
RowClassified_no_details(r) ==
    [raised |-> FALSE, store |-> r.store,
     stats |-> [r.stats EXCEPT !.conflict_details = <<>>], error |-> NoError]

\* RowClassified where a conflict raises.
RowClassified_conflict_raises(r) ==
    [raised |-> r.stats.conflicts > 0, store |-> r.store, stats |-> r.stats,
     error |-> NoError]

\* The outcome of a row that was classified: r is the store and the stats.
RowClassified(r) ==
    [raised |-> FALSE, store |-> r.store, stats |-> r.stats,
     error |-> NoError]

\* Lines 288-342 for a bar of the session td found or created.
ProcessSession(td, st, bar, row, file) ==
    RowClassified(InsertOrClassify(td.store, st, bar, row, 0, td.id, file))

\* ProcessResolved where a Saturday record is dropped and the loop goes on.
ProcessResolved_skip_saturday(store, st, bar, session, row, symbol, source, file) ==
    IF session.kind = "error"
    THEN RowClassified([store |-> store, stats |-> st])
    ELSE IF session.kind = "halt"
    THEN RowClassified(InsertOrClassify(store, st, bar, row, 1, NULL, file))
    ELSE ProcessSession(
             get_or_create_trade_day(symbol, session.date, source, store),
             st, bar, row, file)

\* ProcessResolved where a bar of the halt hour is stored without its flag.
ProcessResolved_halt_unflagged(store, st, bar, session, row, symbol, source, file) ==
    IF session.kind = "error"
    THEN RowRaised(store, st, "saturday", bar.timestamp, file)
    ELSE IF session.kind = "halt"
    THEN RowClassified(InsertOrClassify(store, st, bar, row, 0, NULL, file))
    ELSE ProcessSession(
             get_or_create_trade_day(symbol, session.date, source, store),
             st, bar, row, file)

\* Lines 263-342 once the session of the bar is resolved: ValueError on a
\* Saturday, halt_period = 1 and no trade day in the halt, and the trade
\* day found or created otherwise.
ProcessResolved(store, st, bar, session, row, symbol, source, file) ==
    IF session.kind = "error"
    THEN RowRaised(store, st, "saturday", bar.timestamp, file)
    ELSE IF session.kind = "halt"
    THEN RowClassified(InsertOrClassify(store, st, bar, row, 1, NULL, file))
    ELSE ProcessSession(
             get_or_create_trade_day(symbol, session.date, source, store),
             st, bar, row, file)

\* Lines 260-342 once the row is parsed.
ProcessParsed(store, st, bar, row, symbol, source, file) ==
    IF ~bar.ok
    THEN RowRaised(store, st, "parse", NULL, <<>>)
    ELSE ProcessResolved(store, st, bar, resolve_trade_day(bar.timestamp),
                         row, symbol, source, file)

\* One iteration of the loop of ingest_csv (lines 239-342) over the
\* connection's store: the exception it raises, or the store and stats
\* after it.
ProcessRow(store, st, row, symbol, source, file) ==
    ProcessParsed(store, st, ParseRow(row, source), row, symbol, source, file)

-----------------------------------------------------------------------------
(* Annotations                                                             *)

ACTIVE == "active"
SUPERSEDED == "superseded"

\* InsertAnnotation refusing a supersedes_id that names no stored
\* annotation: nothing is inserted.
InsertAnnotation_guarded(td, note, supersedes_id, created_at) ==
    IF /\ supersedes_id # NULL
       /\ supersedes_id \notin 1..Len(td.store.day_annotations)
    THEN [id |-> NULL, store |-> td.store]
    ELSE [id |-> Len(td.store.day_annotations) + 1,
          store |-> [td.store EXCEPT !.day_annotations = Append(@,
                        [id |-> Len(td.store.day_annotations) + 1,
                         trade_day_id |-> td.id,
                         annotation_type |-> note.annotation_type,
                         content |-> note.content,
                         tags |-> note.tags,
                         source |-> note.source,
                         created_at |-> created_at,
                         supersedes_id |-> supersedes_id,
                         status |-> ACTIVE])]]

\* Lines 384-392: the INSERT of the annotation, active, under the session td
\* found or created; the new row's id is lastrowid.
InsertAnnotation(td, note, supersedes_id, created_at) ==
    [id |-> Len(td.store.day_annotations) + 1,
     store |-> [td.store EXCEPT !.day_annotations = Append(@,
                   [id |-> Len(td.store.day_annotations) + 1,
                    trade_day_id |-> td.id,
                    annotation_type |-> note.annotation_type,
                    content |-> note.content,
                    tags |-> note.tags,
                    source |-> note.source,
                    created_at |-> created_at,
                    supersedes_id |-> supersedes_id,
                    status |-> ACTIVE])]]

\* save_day_annotation without the UPDATE of the superseded row.
MarkSuperseded_no_update(store, supersedes_id) == store

\* The UPDATE with WHERE id <= ? in place of WHERE id = ?.
MarkSuperseded_up_to(store, supersedes_id) ==
    IF supersedes_id # NULL /\ supersedes_id # 0
    THEN [store EXCEPT !.day_annotations =
             [i \in 1..Len(@) |->
                 IF @[i].id <= supersedes_id
                 THEN [@[i] EXCEPT !.status = SUPERSEDED]
                 ELSE @[i]]]
    ELSE store

\* Lines 394-399: the UPDATE of the row whose id is supersedes_id, run when
\* supersedes_id is truthy; the statement has no other condition.
MarkSuperseded(store, supersedes_id) ==
    IF supersedes_id # NULL /\ supersedes_id # 0
    THEN [store EXCEPT !.day_annotations =
             [i \in 1..Len(@) |->
                 IF @[i].id = supersedes_id
                 THEN [@[i] EXCEPT !.status = SUPERSEDED]
                 ELSE @[i]]]
    ELSE store

\* The trade_days row with the given id.
TradeDayOf(store, trade_day_id) ==
    store.trade_days[FirstIndex({i \in 1..Len(store.trade_days) :
                                    store.trade_days[i].id = trade_day_id})]

\* all(tag in row_tags for tag in tags)
AnyTag_all(tags, row_tags) ==
    \A i \in 1..Len(tags) : \E j \in 1..Len(row_tags) : tags[i] = row_tags[j]

\* any(tag in row_tags for tag in tags)
AnyTag(tags, row_tags) ==
    \E i \in 1..Len(tags) : \E j \in 1..Len(row_tags) : tags[i] = row_tags[j]

ALL == "all"
NoTags == <<>>
NoType == ""

\* The rows get_day_annotations selects (its WHERE clause and tag filter).
AnnotationMatches(store, a, symbol, start_date, end_date, tags, status, annotation_type) ==
    /\ \E td \in {store.trade_days[i] : i \in 1..Len(store.trade_days)} :
          /\ td.id = a.trade_day_id
          /\ td.symbol = symbol
          /\ td.session_date >= start_date
          /\ td.session_date <= end_date
    /\ status # ALL => a.status = status
    /\ annotation_type # NoType => a.annotation_type = annotation_type
    /\ tags # NoTags => AnyTag(tags, a.tags)

\* ORDER BY td.session_date, da.created_at; rows that tie are taken in
\* rowid order.
AnnotationBefore(store, a, b) ==
    LET da == TradeDayOf(store, a.trade_day_id).session_date
        dd == TradeDayOf(store, b.trade_day_id).session_date
    IN  \/ da < dd
        \/ da = dd /\ a.created_at < b.created_at
        \/ da = dd /\ a.created_at = b.created_at /\ a.id < b.id

RECURSIVE SortAnnotations(_, _)
SortAnnotations(store, rows) ==
    IF rows = {} THEN <<>>
    ELSE LET head == CHOOSE a \in rows :
                        \A b \in rows \ {a} : AnnotationBefore(store, a, b)
         IN  <<head>> \o SortAnnotations(store, rows \ {head})

\* get_day_annotations: the selected rows in order, each with its session
\* date.
get_day_annotations(store, symbol, start_date, end_date, tags, status, annotation_type) ==
    LET all == {store.day_annotations[i] :
                    i \in 1..Len(store.day_annotations)}
        rows == {a \in all : AnnotationMatches(store, a, symbol, start_date,
                                 end_date, tags, status, annotation_type)}
        sorted == SortAnnotations(store, rows)
    IN  [i \in 1..Len(sorted) |->
            [id |-> sorted[i].id,
             session_date |->
                 TradeDayOf(store, sorted[i].trade_day_id).session_date,
             annotation_type |-> sorted[i].annotation_type,
             content |-> sorted[i].content,
             tags |-> sorted[i].tags,
             source |-> sorted[i].source,
             created_at |-> sorted[i].created_at,
             supersedes_id |-> sorted[i].supersedes_id,
             status |-> sorted[i].status]]

-----------------------------------------------------------------------------
(* get_bars                                                                *)

\* The trade_days columns of a bar that the LEFT JOIN found no session for:
\* all NULL.
NoSession ==
    [matched |-> FALSE, id |-> NULL, symbol |-> "", session_date |-> NULL,
     source |-> ""]

\* Line 446: LEFT JOIN trade_days td ON b.trade_day_id = td.id.
JoinedSession(store, bar) ==
    IF \E i \in 1..Len(store.trade_days) :
           store.trade_days[i].id = bar.trade_day_id
    THEN [matched |-> TRUE, id |-> bar.trade_day_id,
          symbol |-> TradeDayOf(store, bar.trade_day_id).symbol,
          session_date |-> TradeDayOf(store, bar.trade_day_id).session_date,
          source |-> TradeDayOf(store, bar.trade_day_id).source]
    ELSE NoSession

\* The WHERE clause with OR td.id IS NULL added: bars without a session pass.
SessionMatches_or_null(td, symbol, source) ==
    \/ ~td.matched
    \/ td.symbol = symbol /\ td.source = source

\* Line 447: WHERE td.symbol = ? AND td.source = ?; a comparison with the
\* NULL of an unmatched bar is not true.
SessionMatches(td, symbol, source) ==
    /\ td.matched
    /\ td.symbol = symbol
    /\ td.source = source

\* Lines 452-457: the date filters (None is NULL).
DateMatches(td, session_date, start_date, end_date) ==
    IF session_date # NULL
    THEN td.matched /\ td.session_date = session_date
    ELSE IF start_date # NULL /\ end_date # NULL
    THEN td.matched /\ td.session_date >= start_date
                    /\ td.session_date <= end_date
    ELSE TRUE

\* Lines 460-461: AND b.halt_period = 0 unless include_halt.
HaltMatches(bar, include_halt) == include_halt \/ bar.halt_period = 0

\* The whole WHERE clause for a bar and its joined session.
BarMatches(bar, td, symbol, session_date, start_date, end_date, include_halt, source) ==
    /\ SessionMatches(td, symbol, source)
    /\ DateMatches(td, session_date, start_date, end_date)
    /\ HaltMatches(bar, include_halt)

\* Line 463: ORDER BY b.timestamp (rows of one timestamp in rowid order).
BarBefore(a, b) ==
    \/ a.timestamp < b.timestamp
    \/ a.timestamp = b.timestamp /\ a.id < b.id

RECURSIVE SortBars(_)
SortBars(rows) ==
    IF rows = {} THEN <<>>
    ELSE LET head == CHOOSE a \in rows : \A b \in rows \ {a} : BarBefore(a, b)
         IN  <<head>> \o SortBars(rows \ {head})

\* Lines 470-484: the dictionary made of a selected row.
BarDict(store, bar) ==
    [id |-> bar.id, timestamp |-> bar.timestamp, open |-> bar.open,
     high |-> bar.high, low |-> bar.low, close |-> bar.close,
     volume |-> bar.volume, halt_period |-> bar.halt_period # 0,
     session_date |-> JoinedSession(store, bar).session_date,
     raw_json |-> bar.raw_json]

\* The dictionaries of the sorted rows.
BarDicts(store, sorted) == [i \in 1..Len(sorted) |-> BarDict(store, sorted[i])]

\* get_bars: the bars selected, in order.
get_bars(store, symbol, session_date, start_date, end_date, include_halt, source) ==
    BarDicts(store,
             SortBars({store.bars[i] : i \in
                 {j \in 1..Len(store.bars) :
                     BarMatches(store.bars[j],
                                JoinedSession(store, store.bars[j]), symbol,
                                session_date, start_date, end_date,
                                include_halt, source)}}))

-----------------------------------------------------------------------------
(* Inputs                                                                  *)

MaxBatch == 2       \* rows per CSV file
MaxCalls == 2       \* calls of ingest_csv
MaxSaves == 3       \* calls of save_day_annotation
MaxClock == 1       \* seconds the wall clock advances between saves

\* The (symbol, source) pairs data is ingested under.
EsTv == <<"ES", TRADINGVIEW>>
NqTv == <<"NQ", TRADINGVIEW>>
EsCsv == <<"ES", "csv">>
Pairs == {EsTv, NqTv, EsCsv}

\* A row of a TradingView export; only the time, close and volume cells
\* vary between the rows of the model.
Row(time, close, volume) ==
    [time |-> time, open |-> Num(8000), high |-> Num(8020),
     low |-> Num(7980), close |-> close, volume |-> volume]

Mon1300 == PlainTime(2024, 1, 8, 13, 0, 0)
Mon1430 == PlainTime(2024, 1, 8, 14, 30, 0)
Mon1500 == PlainTime(2024, 1, 8, 15, 0, 0)
Fri1500 == PlainTime(2024, 1, 12, 15, 0, 0)
Sat1200 == PlainTime(2024, 1, 13, 12, 0, 0)
Mon1300Iso == IsoTime(2024, 1, 8, 13, 0, 0, 0 - PstOffsetHours)

RowA == Row(Mon1300, Num(8000), Num(200))
RowA1 == Row(Mon1300, Num(8001), Num(200))       \* close 0.0005 off RowA
RowA3 == Row(Mon1300, Num(8003), Num(200))       \* close 0.0015 off RowA
RowAIso == Row(Mon1300Iso, Num(8000), Num(200))  \* RowA with an ISO time
RowANoVol == Row(Mon1300, Num(8000), EmptyCell)
RowAVol2 == Row(Mon1300, Num(8000), Num(2))      \* volume 0.001
RowAVol3 == Row(Mon1300, Num(8000), Num(3))      \* volume 0.0015
RowBad == Row(Sat1200, NotANumber, Num(200))     \* a Saturday, close "n/a"
RowH == Row(Mon1430, Num(8000), Num(200))
RowH3 == Row(Mon1430, Num(8003), Num(200))
RowE == Row(Mon1500, Num(8000), Num(200))
RowF == Row(Fri1500, Num(8000), Num(200))
RowS == Row(Sat1200, Num(8000), Num(200))

\* The arguments of save_day_annotation other than supersedes_id.
Note(symbol, session_date, annotation_type, tags, source) ==
    [symbol |-> symbol, session_date |-> session_date, content |-> "note",
     annotation_type |-> annotation_type, tags |-> tags, source |-> source]

Jan08 == 20240108
Jan09 == 20240109

NoteMon == Note("ES", Jan08, "observation", <<>>, "manual")
NoteTue == Note("ES", Jan09, "observation", <<>>, "manual")
NoteTagged == Note("ES", Jan08, "observation", <<"momentum", "trend_day">>,
                   "manual")
NoteOther == Note("NQ", Jan08, "hypothesis", <<"reversal">>, "csv")

\* What the callers work with, fixed at start: the rows the CSV files are
\* made of, the (symbol, source) pairs they are ingested under, the notes
\* that are saved, how many ids beyond the next one to be allocated a caller
\* passes as supersedes_id, whether the wall clock advances between two
\* saves, and how many rows beyond MaxBatch its CSV files have.
Scenario(rows, notes, pairs, strays, ticks, extra) ==
    [feed |-> rows, desk |-> notes, pairs |-> pairs, strays |-> strays,
     ticks |-> ticks, extra |-> extra]

Scenarios == {
    Scenario({RowA, RowA1, RowA3}, {}, Pairs, 0, 0, 0),
    Scenario({RowA, RowH, RowS}, {}, Pairs, 0, 0, 0),
    Scenario({RowE, RowAIso, RowBad}, {}, Pairs, 0, 0, 0),
    Scenario({RowH, RowH3, RowF}, {}, Pairs, 0, 0, 0),
    Scenario({RowANoVol, RowAVol2, RowAVol3}, {}, Pairs, 0, 0, 0),
    Scenario({}, {NoteMon, NoteTue}, {}, 0, 1, 0),
    Scenario({}, {NoteTagged, NoteOther}, {}, 1, 0, 0),
    Scenario({RowA}, {NoteMon}, {EsTv}, 0, 0, 0),
    Scenario({RowA, RowA1, RowA3}, {}, {EsTv}, 0, 0, 1) }

\* The numbers of rows a CSV file has: up to MaxBatch, or extra more than
\* that where the export is a long one.
FileLengths(extra) == IF extra = 0 THEN 1..MaxBatch ELSE {MaxBatch + extra}

\* The CSV files over a row set: every sequence of rows of such a length.
Files(rows, extra) == UNION {[1..n -> rows] : n \in FileLengths(extra)}

-----------------------------------------------------------------------------
(* State machine                                                           *)

NoCall == [op |-> "none"]
\* What a call left behind: the report or id it returned (ok), or the error
\* it raised and the stats it had reached by then (partial), which no
\* caller sees.
NoResult == [op |-> "none", ok |-> TRUE, call |-> NoCall,
             stats |-> EmptyStats, partial |-> EmptyStats,
             error |-> NoError, id |-> NULL]
NoFirst == [valid |-> FALSE, stats |-> EmptyStats]

\* A connection in autocommit mode: every statement is committed at once.
AfterStatement_autocommit(committed, working) == working

\* sqlite3.connect(db_path) with the default isolation level: a statement
\* that writes opens a transaction, and what other connections read stays
\* the committed database until commit().
AfterStatement(committed, working) == committed

\* The connection is dropped with its transaction open: SQLite rolls the
\* transaction back.
AfterDrop(committed, working) == committed

\* conn.commit()
AfterCommit(committed, working) == working

\* No call of init_database on the existing file yet.
NoInits == [n |-> 0, ok |-> TRUE]

Init ==
    /\ db = EmptyDb
    /\ conn = EmptyDb
    /\ pc = "idle"
    /\ call = NoCall
    /\ pos = 0
    /\ stats = EmptyStats
    /\ last = NoResult
    /\ before = EmptyDb
    /\ first = NoFirst
    /\ ncalls = 0
    /\ nsaves = 0
    /\ clock = 0
    /\ env \in Scenarios
    /\ rts = 0
    /\ rres = Pending
    /\ wr = <<>>
    /\ lock = 0
    /\ inits = NoInits

\* ingest_csv is called (lines 226-234): a connection is opened on the
\* committed database and the stats start at zero.
StartIngest(file, symbol, source) ==
    /\ pc = "idle"
    /\ ncalls < MaxCalls
    /\ pc' = "ingest"
    /\ call' = [op |-> "ingest", file |-> file, symbol |-> symbol,
                source |-> source]
    /\ conn' = db
    /\ pos' = 1
    /\ stats' = EmptyStats
    /\ before' = db
    /\ first' = IF last.op = "ingest" /\ last.ok /\ last.call = call'
                THEN [valid |-> TRUE, stats |-> last.stats]
                ELSE NoFirst
    /\ last' = NoResult
    /\ ncalls' = ncalls + 1
    /\ UNCHANGED <<db, nsaves, clock, env, rts, rres, wr, lock, inits>>

\* The row classified on a second connection, which reads the committed
\* database only.
RowOutcome_committed ==
    ProcessRow(db, stats, call.file[pos], call.symbol, call.source, call.file)

RowOutcome ==
    ProcessRow(conn, stats, call.file[pos], call.symbol, call.source, call.file)

\* The row's statements ran on the connection without an exception.
RowDone(r) ==
    /\ ~r.raised
    /\ conn' = r.store
    /\ db' = AfterStatement(db, r.store)
    /\ stats' = r.stats

\* One row of the file is read and processed without an exception.
IngestRow ==
    /\ pc = "ingest"
    /\ pos <= Len(call.file)
    /\ RowDone(RowOutcome)
    /\ pos' = pos + 1
    /\ UNCHANGED <<pc, call, last, before, first, ncalls, nsaves, clock,
                   env, rts, rres, wr, lock, inits>>

\* The row raised: what the call leaves behind.
RowFailed(r) ==
    /\ r.raised
    /\ last' = [op |-> "ingest", ok |-> FALSE, call |-> call,
                stats |-> EmptyStats, partial |-> stats,
                error |-> r.error, id |-> NULL]

\* A row raises ValueError: the exception leaves ingest_csv, the connection
\* is dropped without a commit and its transaction is rolled back.
IngestRaise ==
    /\ pc = "ingest"
    /\ pos <= Len(call.file)
    /\ RowFailed(RowOutcome)
    /\ db' = AfterDrop(db, conn)
    /\ conn' = db'
    /\ pc' = "idle"
    /\ stats' = EmptyStats
    /\ pos' = 0
    /\ call' = NoCall
    /\ first' = NoFirst
    /\ UNCHANGED <<before, ncalls, nsaves, clock, env, rts, rres, wr, lock, inits>>

\* The file is exhausted: conn.commit() and the stats are returned
\* (lines 344-347).
IngestCommit ==
    /\ pc = "ingest"
    /\ pos > Len(call.file)
    /\ db' = AfterCommit(db, conn)
    /\ pc' = "idle"
    /\ last' = [op |-> "ingest", ok |-> TRUE, call |-> call,
                stats |-> stats, partial |-> EmptyStats,
                error |-> NoError, id |-> NULL]
    /\ stats' = EmptyStats
    /\ pos' = 0
    /\ call' = NoCall
    /\ UNCHANGED <<conn, before, first, ncalls, nsaves, clock, env,
                   rts, rres, wr, lock, inits>>

\* The session looked up under the source the caller passed.
SessionSource_argument(source) == source

\* Line 376: the source of the session an annotation is attached to is the
\* literal "tradingview", whatever source the caller passed.
SessionSource(source) == TRADINGVIEW

\* The INSERT of save_day_annotation ran on the connection: r is the new id
\* and the connection's store.
SaveDone(r, note, supersedes_id) ==
    /\ conn' = r.store
    /\ db' = AfterStatement(db, r.store)
    /\ call' = [op |-> "save", note |-> note,
                supersedes_id |-> supersedes_id, id |-> r.id]

\* save_day_annotation is called: on a fresh connection the session is
\* found or created under the source "tradingview" and the annotation is
\* inserted (lines 372-392); nothing is committed yet. The wall clock reads
\* now.
SaveExecute(note, supersedes_id, now) ==
    /\ pc = "idle"
    /\ nsaves < MaxSaves
    /\ SaveDone(InsertAnnotation(
                    get_or_create_trade_day(note.symbol, note.session_date,
                                            SessionSource(note.source), db),
                    note, supersedes_id, now),
                note, supersedes_id)
    /\ pc' = "supersede"
    /\ clock' = now
    /\ before' = db
    /\ first' = NoFirst
    /\ last' = NoResult
    /\ nsaves' = nsaves + 1
    /\ UNCHANGED <<pos, stats, ncalls, env, rts, rres, wr, lock, inits>>

\* Lines 394-399 on the same connection, still before the commit.
SaveSupersede ==
    /\ pc = "supersede"
    /\ conn' = MarkSuperseded(conn, call.supersedes_id)
    /\ db' = AfterStatement(db, conn')
    /\ pc' = "save"
    /\ UNCHANGED <<call, pos, stats, last, before, first, ncalls, nsaves,
                   clock, env, rts, rres, wr, lock, inits>>

\* conn.commit() and the new id is returned (lines 401-404).
SaveCommit ==
    /\ pc = "save"
    /\ db' = AfterCommit(db, conn)
    /\ pc' = "idle"
    /\ last' = [op |-> "save", ok |-> TRUE, call |-> call,
                stats |-> EmptyStats, partial |-> EmptyStats,
                error |-> NoError, id |-> call.id]
    /\ call' = NoCall
    /\ UNCHANGED <<conn, pos, stats, before, first, ncalls, nsaves, clock,
                   env, rts, rres, wr, lock, inits>>

\* The values a caller may pass as supersedes_id: None, the id of a stored
\* annotation, the id about to be allocated, or an id no annotation has.
SupersedesIds ==
    {NULL} \cup (1..(Len(db.day_annotations) + 1 + env.strays))

\* The wall clock since the previous save: the same second or a later one.
Nows == {t \in {clock, clock + env.ticks} : t <= MaxClock}

Next ==
    \/ \E file \in Files(env.feed, env.extra), pair \in env.pairs :
           StartIngest(file, pair[1], pair[2])
    \/ IngestRow
    \/ IngestRaise
    \/ IngestCommit
    \/ \E note \in env.desk, supersedes_id \in SupersedesIds, now \in Nows :
           SaveExecute(note, supersedes_id, now)
    \/ SaveSupersede
    \/ SaveCommit

Spec == Init /\ [][Next]_vars

-----------------------------------------------------------------------------
(* The resolver on its own: resolve_trade_day applied to one instant        *)

ResolveHours == 192     \* hours covered from each starting instant

\* Midnights (local) the instants are taken from: the week of the tests, the
\* weekends of the two DST changes of 2024, and month and year ends.
GridStarts == {
    PtTimestamp(<<2024, 1, 6, 0, 0, 0>>),
    PtTimestamp(<<2024, 3, 8, 0, 0, 0>>),
    PtTimestamp(<<2024, 11, 1, 0, 0, 0>>),
    PtTimestamp(<<2024, 2, 25, 0, 0, 0>>),
    PtTimestamp(<<2024, 12, 27, 0, 0, 0>>) }

\* Seconds into the hour: its first second, its last minute, its last second.
SecondOffsets == {0, 3540, 3599}

ResolveInputs ==
    {start + h * SecondsPerHour + s :
        start \in GridStarts, h \in 0..(ResolveHours - 1), s \in SecondOffsets}

InitResolve ==
    /\ db = EmptyDb
    /\ conn = EmptyDb
    /\ pc = "idle"
    /\ call = NoCall
    /\ pos = 0
    /\ stats = EmptyStats
    /\ last = NoResult
    /\ before = EmptyDb
    /\ first = NoFirst
    /\ ncalls = 0
    /\ nsaves = 0
    /\ clock = 0
    /\ env = Scenario({}, {}, {}, 0, 0, 0)
    /\ rts \in ResolveInputs
    /\ rres = Pending
    /\ wr = <<>>
    /\ lock = 0
    /\ inits = NoInits

\* resolve_trade_day(rts) is called and returns or raises.
Resolve ==
    /\ rres = Pending
    /\ rres' = resolve_trade_day(rts)
    /\ UNCHANGED <<db, conn, pc, call, pos, stats, last, before, first,
                   ncalls, nsaves, clock, env, rts, wr, lock, inits>>

NextResolve == Resolve

SpecResolve == InitResolve /\ [][NextResolve]_vars

-----------------------------------------------------------------------------
(* One database file shared by several connections: two writers that each  *)
(* run get_or_create_trade_day in a transaction of their own, and          *)
(* init_database called again on the existing file                         *)

MaxRounds == 1      \* transactions of each writer
MaxInits == 1       \* calls of init_database on the existing file

Writers == {1, 2}

\* The (symbol, session_date, source) keys the writers ask for.
SharedKeys == {<<"ES", Jan08, TRADINGVIEW>>, <<"NQ", Jan08, TRADINGVIEW>>}

\* The three tables of the schema.
TABLES == <<"trade_days", "bars", "day_annotations">>

\* A database file sqlite3.connect has just created: no table in it.
NewFile == [t \in {} |-> <<>>]

\* CREATE TABLE without IF NOT EXISTS: an existing table is an error.
CreateTable_strict(r, table) ==
    IF ~r.ok THEN r
    ELSE IF table \in DOMAIN r.store THEN [ok |-> FALSE, store |-> r.store]
    ELSE [ok |-> TRUE,
          store |-> [t \in DOMAIN r.store \cup {table} |->
                        IF t = table THEN <<>> ELSE r.store[t]]]

\* CREATE TABLE IF NOT EXISTS, executed after the statements whose outcome
\* is r: an existing table and its rows are left as they are.
CreateTable(r, table) ==
    IF ~r.ok THEN r
    ELSE IF table \in DOMAIN r.store THEN r
    ELSE [ok |-> TRUE,
          store |-> [t \in DOMAIN r.store \cup {table} |->
                        IF t = table THEN <<>> ELSE r.store[t]]]

\* init_database: the three CREATE statements in order, then the commit.
init_database(file) ==
    CreateTable(CreateTable(CreateTable([ok |-> TRUE, store |-> file],
                                        TABLES[1]), TABLES[2]), TABLES[3])

\* The stores the shared file starts from: the one init_database creates, one
\* that an ingest_csv has added a bar to, one that a save_day_annotation has
\* then added an annotation to.
SeedBars ==
    ProcessRow(init_database(NewFile).store, EmptyStats, RowA, "ES",
               TRADINGVIEW, <<RowA>>).store
SeedNotes ==
    InsertAnnotation(get_or_create_trade_day("ES", Jan09, TRADINGVIEW,
                                             SeedBars), NoteTue, NULL, 0).store
SeedStores == {init_database(NewFile).store, SeedBars, SeedNotes}

\* A connection with no call running.
IdleWriter ==
    [pc |-> "idle", symbol |-> "", session_date |-> 0, source |-> "",
     found |-> 0, view |-> EmptyDb, rounds |-> 0, error |-> ""]

InitShared ==
    /\ db \in SeedStores
    /\ conn = EmptyDb
    /\ pc = "idle"
    /\ call = NoCall
    /\ pos = 0
    /\ stats = EmptyStats
    /\ last = NoResult
    /\ before = EmptyDb
    /\ first = NoFirst
    /\ ncalls = 0
    /\ nsaves = 0
    /\ clock = 0
    /\ env = Scenario({}, {}, {}, 0, 0, 0)
    /\ rts = 0
    /\ rres = Pending
    /\ wr = [w \in Writers |-> IdleWriter]
    /\ lock = 0
    /\ inits = NoInits

SharedFrame ==
    UNCHANGED <<conn, pc, call, pos, stats, last, before, first, ncalls,
                nsaves, clock, env, rts, rres>>

\* Lines 153-157 on writer w's connection: the SELECT reads the committed
\* rows (the connection has written nothing yet).
Lookup(w, key) ==
    /\ wr[w].pc = "idle"
    /\ wr[w].rounds < MaxRounds
    /\ wr' = [wr EXCEPT ![w] =
                 [@ EXCEPT !.pc = "looked",
                           !.symbol = key[1],
                           !.session_date = key[2],
                           !.source = key[3],
                           !.found = FindTradeDay(key[1], key[2], key[3], db),
                           !.error = ""]]
    /\ UNCHANGED <<db, lock, inits>>
    /\ SharedFrame

\* Lines 159-160 and the caller's commit: the row was found, nothing is
\* written.
ReturnFound(w) ==
    /\ wr[w].pc = "looked"
    /\ wr[w].found # 0
    /\ wr' = [wr EXCEPT ![w] = [@ EXCEPT !.pc = "idle", !.rounds = @ + 1]]
    /\ UNCHANGED <<db, lock, inits>>
    /\ SharedFrame

\* A trade_days table declared without UNIQUE(symbol, session_date, source).
UniqueViolation_unconstrained(symbol, session_date, source, store) == FALSE

\* Lines 91-96: UNIQUE(symbol, session_date, source) rejects the INSERT of a
\* key the table already holds.
UniqueViolation(symbol, session_date, source, store) ==
    FindTradeDay(symbol, session_date, source, store) # 0

\* Lines 163-167 on writer w's connection with the write lock free: the
\* INSERT opens a transaction and takes the lock; it raises IntegrityError
\* (the connection is dropped, the lock released) when the committed rows
\* hold the key by now.
InsertRow(w) ==
    /\ wr[w].pc = "looked"
    /\ wr[w].found = 0
    /\ lock = 0
    /\ IF UniqueViolation(wr[w].symbol, wr[w].session_date, wr[w].source, db)
       THEN /\ wr' = [wr EXCEPT ![w] =
                         [@ EXCEPT !.pc = "idle", !.rounds = @ + 1,
                                   !.error = "IntegrityError"]]
            /\ lock' = 0
       ELSE /\ wr' = [wr EXCEPT ![w] =
                         [@ EXCEPT !.pc = "inserted",
                                   !.view = CreateTradeDay(
                                                wr[w].symbol,
                                                wr[w].session_date,
                                                wr[w].source, db).store]]
            /\ lock' = w
    /\ UNCHANGED <<db, inits>>
    /\ SharedFrame

\* Lines 163-167 while another connection holds the write lock until the
\* busy timeout runs out: OperationalError (database is locked).
InsertLocked(w) ==
    /\ wr[w].pc = "looked"
    /\ wr[w].found = 0
    /\ lock \notin {0, w}
    /\ wr' = [wr EXCEPT ![w] =
                 [@ EXCEPT !.pc = "idle", !.rounds = @ + 1,
                           !.error = "OperationalError"]]
    /\ UNCHANGED <<db, lock, inits>>
    /\ SharedFrame

\* The caller's conn.commit() (lines 344 and 401).
CommitRow(w) ==
    /\ wr[w].pc = "inserted"
    /\ db' = AfterCommit(db, wr[w].view)
    /\ lock' = 0
    /\ wr' = [wr EXCEPT ![w] =
                 [@ EXCEPT !.pc = "idle", !.rounds = @ + 1,
                           !.view = EmptyDb]]
    /\ UNCHANGED inits
    /\ SharedFrame

\* The outcome r of init_database on the file as it is.
InitDone(r) ==
    /\ db' = r.store
    /\ inits' = [n |-> inits.n + 1, ok |-> r.ok]

\* init_database is called again (lines 85-134).
InitDatabase ==
    /\ inits.n < MaxInits
    /\ InitDone(init_database(db))
    /\ UNCHANGED <<wr, lock>>
    /\ SharedFrame

NextShared ==
    \/ \E w \in Writers, key \in SharedKeys : Lookup(w, key)
    \/ \E w \in Writers : ReturnFound(w)
    \/ \E w \in Writers : InsertRow(w)
    \/ \E w \in Writers : InsertLocked(w)
    \/ \E w \in Writers : CommitRow(w)
    \/ InitDatabase

SpecShared == InitShared /\ [][NextShared]_vars

-----------------------------------------------------------------------------
(* Properties of the resolver (checked under SpecResolve)                  *)

\* The local wall-clock reading of the resolved instant.
LocalWeekday == weekday(get_pt_datetime(rts))
LocalHour == get_pt_datetime(rts).hour
LocalOrdinal == get_pt_datetime(rts).ordinal

\* The day number of a date string YYYYMMDD.
DateOrdinal(date) ==
    DaysFromCivil(date \div 10000, (date \div 100) % 100, date % 100)

Resolved == rres # Pending

\* Instants of the tests: Sunday 2024-01-07 15:00:00, Monday 2024-01-08
\* 13:00:00, 13:59:00, 14:00:00, 14:59:00 and 15:00:00, Saturday 2024-01-13
\* 14:00:00, all local.
Sun1500Ts == 1704668400
Mon1300Ts == 1704747600
Mon1359Ts == 1704751140
Mon1400Ts == 1704751200
Mon1459Ts == 1704754740
Mon1500Ts == 1704754800
Sat1400Ts == 1705183200

\* C6: an instant that is not on a local Saturday and whose local hour is in
\* [15:00, 24:00) resolves to the trade day one calendar day after its local
\* date; Sunday 2024-01-07 15:00:00 resolves to Monday 2024-01-08.
C6_EveningRollsToNextDay ==
    /\ (Resolved /\ LocalWeekday # SATURDAY /\ LocalHour >= 15 /\ LocalHour < 24)
          => /\ rres.kind = "day"
             /\ DateOrdinal(rres.date) = LocalOrdinal + 1
    /\ (Resolved /\ rts = Sun1500Ts) => rres = TradeDay(20240108)

C6_Witness == Resolved /\ rts = Sun1500Ts /\ LocalHour = 15 /\ rres.kind = "day"

\* C7: an instant that is not on a local Saturday and whose local hour is in
\* [0:00, 14:00) resolves to the trade day of its own local date.
C7_DaytimeKeepsDate ==
    /\ (Resolved /\ LocalWeekday # SATURDAY /\ LocalHour >= 0 /\ LocalHour < 14)
          => /\ rres.kind = "day"
             /\ DateOrdinal(rres.date) = LocalOrdinal
    /\ (Resolved /\ rts = Mon1300Ts) => rres = TradeDay(20240108)

C7_Witness == Resolved /\ rts = Mon1300Ts /\ LocalHour = 13 /\ rres.kind = "day"

\* C8: on every weekday but Saturday the result is Halt exactly for the
\* instants whose local hour is in [14:00, 15:00): 14:00:00 and 14:59 are
\* halt, 13:59 and 15:00:00 are not.
C8_HaltIsHour14 ==
    /\ (Resolved /\ LocalWeekday # SATURDAY) => (rres = Halt <=> LocalHour = 14)
    /\ (Resolved /\ rts \in {Mon1400Ts, Mon1459Ts}) => rres = Halt
    /\ (Resolved /\ rts \in {Mon1359Ts, Mon1500Ts}) => rres.kind = "day"

C8_Witness == Resolved /\ rts = Mon1459Ts /\ rres = Halt

\* C9: every instant on a local Saturday fails with InvalidSession, at every
\* hour of the day, the halt hour and the boundaries 00:00:00, 14:00:00,
\* 15:00:00 and 23:59:59 included.
C9_SaturdayFails ==
    (Resolved /\ LocalWeekday = SATURDAY) => rres = InvalidSession

C9_Witness ==
    Resolved /\ rts = Sat1400Ts /\ LocalHour = 14 /\ rres = InvalidSession

-----------------------------------------------------------------------------
(* Properties of the ingestion engine (checked under Spec)                 *)

BarsOf(store) == {store.bars[i] : i \in 1..Len(store.bars)}
TradeDaysOf(store) == {store.trade_days[i] : i \in 1..Len(store.trade_days)}

Returned(op) == pc = "idle" /\ last.op = op /\ last.ok
Raised(op) == pc = "idle" /\ last.op = op /\ ~last.ok

\* The second of two consecutive identical ingest_csv calls has returned.
SecondPassDone == Returned("ingest") /\ first.valid

\* C1 as stated: the second pass over the identical batch reports
\* inserted = 0, skipped = the first pass's inserted count, conflicts = 0.
C1_SecondPassAllSkipped ==
    SecondPassDone =>
        /\ last.stats.inserted = 0
        /\ last.stats.skipped = first.stats.inserted
        /\ last.stats.conflicts = 0

\* C1 amended: the second pass inserts nothing, skips what the first pass
\* inserted or skipped, and reports the conflicts of the first pass again;
\* when the first pass inserted every record this is inserted = 0,
\* skipped = the first pass's inserted count, conflicts = 0.
C1_SecondPassRepeatsVerdicts ==
    SecondPassDone =>
        /\ last.stats.inserted = 0
        /\ last.stats.skipped = first.stats.inserted + first.stats.skipped
        /\ last.stats.conflicts = first.stats.conflicts
        /\ (first.stats.skipped = 0 /\ first.stats.conflicts = 0)
              => /\ last.stats.skipped = first.stats.inserted
                 /\ last.stats.conflicts = 0

C1_Witness ==
    /\ SecondPassDone
    /\ first.stats.inserted = Len(last.call.file)
    /\ last.stats.skipped = Len(last.call.file)

\* Every bar row of old is still in new, at its place and with its values.
BarsKept(old, new) ==
    /\ Len(new.bars) >= Len(old.bars)
    /\ \A i \in 1..Len(old.bars) : new.bars[i] = old.bars[i]

\* C2: a stored bar keeps its open, high, low, close and volume in every
\* later state of the store, whatever is ingested afterwards; no bar row is
\* overwritten or deleted (in the committed store, and in a running
\* transaction's view of it).
C2_FirstWriterWins ==
    [][/\ BarsKept(db, db')
       /\ (pc = "ingest" /\ pc' = "ingest") => BarsKept(conn, conn')]_vars

C2_Witness ==
    /\ Returned("ingest")
    /\ last.stats.conflicts > 0
    /\ \E b \in BarsOf(before) :
          /\ OHLCV(b) = last.stats.conflict_details[1].existing
          /\ b.timestamp = last.stats.conflict_details[1].timestamp
          /\ b \in BarsOf(db)

\* The stored bars an incoming record of the running call is keyed to: the
\* halt bars of its timestamp when it falls in the halt hour, else the bars
\* of its timestamp in the session of its (symbol, trade day, source).
KeyedBars(store, symbol, source, timestamp) ==
    {b \in BarsOf(store) :
        /\ b.timestamp = timestamp
        /\ IF get_pt_datetime(timestamp).hour = HALT_HOUR
           THEN b.halt_period = 1
           ELSE \E td \in TradeDaysOf(store) :
                   /\ td.id = b.trade_day_id
                   /\ td.symbol = symbol
                   /\ td.source = source
                   /\ TradeDay(td.session_date) = resolve_trade_day(timestamp)}

\* The step that processes the row at pos without raising.
RowProcessed == pc = "ingest" /\ pc' = "ingest" /\ pos' = pos + 1

\* C3: a record keyed to a stored bar whose close differs from its own by
\* more than 0.001 adds 1 to conflicts and exactly one entry to
\* conflict_details, with the record's timestamp, the reason "OHLCV
\* mismatch", the stored values and the incoming values; the stored bars
\* are unchanged.
C3_ConflictDetected ==
    [][RowProcessed =>
        LET rec == ParseRow(call.file[pos], call.source)
            hits == {b \in KeyedBars(conn, call.symbol, call.source,
                                     rec.timestamp) :
                        Abs(b.close - rec.close) > Tolerance}
            n == Len(stats.conflict_details)
        IN  hits # {} =>
              /\ stats'.conflicts = stats.conflicts + 1
              /\ stats'.inserted = stats.inserted
              /\ stats'.skipped = stats.skipped
              /\ Len(stats'.conflict_details) = n + 1
              /\ SubSeq(stats'.conflict_details, 1, n) = stats.conflict_details
              /\ stats'.conflict_details[n + 1].timestamp = rec.timestamp
              /\ stats'.conflict_details[n + 1].reason = "OHLCV mismatch"
              /\ stats'.conflict_details[n + 1].existing
                    \in {OHLCV(b) : b \in hits}
              /\ stats'.conflict_details[n + 1].new = OHLCV(rec)
              /\ conn'.bars = conn.bars
              /\ db' = db]_vars

C3_Witness ==
    /\ pc = "ingest"
    /\ stats.conflicts = 1
    /\ Abs(stats.conflict_details[1].existing.close
             - stats.conflict_details[1].new.close) > Tolerance
    /\ stats.conflict_details[1].existing \in {OHLCV(b) : b \in BarsOf(conn)}

\* C4: while ingest_csv runs the committed store is the one it began with,
\* and after it fails on a parse error or a Saturday record the store holds
\* exactly the bars and sessions it held before the call.
C4_AllOrNothing ==
    /\ pc = "ingest" => db = before
    /\ Raised("ingest") =>
          /\ db.bars = before.bars
          /\ db.trade_days = before.trade_days
          /\ conn = db

C4_Witness ==
    /\ Raised("ingest")
    /\ last.error.kind = "saturday"
    /\ last.partial.inserted > 0

C4_WitnessParse ==
    /\ Raised("ingest")
    /\ last.error.kind = "parse"
    /\ last.partial.inserted > 0

\* No two bars of the store share a key.
UniqueBarKeys(store) ==
    \A i, j \in 1..Len(store.bars) :
        i < j =>
            LET a == store.bars[i]
                b == store.bars[j]
            IN  /\ ~(/\ a.halt_period = 0
                     /\ b.halt_period = 0
                     /\ a.trade_day_id = b.trade_day_id
                     /\ a.timestamp = b.timestamp)
                /\ ~(/\ a.halt_period = 1
                     /\ b.halt_period = 1
                     /\ a.timestamp = b.timestamp)

\* C5: in every store state no two non-halt bars share (session, timestamp)
\* and no two halt bars share a timestamp, whatever symbol or source they
\* were ingested under.
C5_BarKeysUnique == UniqueBarKeys(db) /\ UniqueBarKeys(conn)

\* A halt bar stored by a call under ES is met again by a call under NQ,
\* which inserts nothing.
C5_Witness ==
    /\ Returned("ingest")
    /\ ncalls = 2
    /\ last.call.symbol = "NQ"
    /\ last.call.file \in {<<RowH>>, <<RowH3>>}
    /\ last.stats.inserted = 0
    /\ before.trade_days # <<>>
    /\ \A td \in TradeDaysOf(before) : td.symbol = "ES"
    /\ \E b \in BarsOf(before) : b.halt_period = 1
    /\ db.bars = before.bars

\* The absolute differences of the five fields of a stored bar and a record.
FieldDiffs(b, rec) ==
    {Abs(b.open - rec.open), Abs(b.high - rec.high), Abs(b.low - rec.low),
     Abs(b.close - rec.close), Abs(b.volume - rec.volume)}

\* The step counted the record as skipped, or as a conflict.
VerdictSkipped ==
    /\ stats'.skipped = stats.skipped + 1
    /\ stats'.conflicts = stats.conflicts
    /\ stats'.inserted = stats.inserted
VerdictConflict ==
    /\ stats'.conflicts = stats.conflicts + 1
    /\ stats'.skipped = stats.skipped
    /\ stats'.inserted = stats.inserted

\* The stored bars the record at pos is keyed to.
KeyedNow ==
    KeyedBars(conn, call.symbol, call.source,
              ParseRow(call.file[pos], call.source).timestamp)

\* C15 as stated: with a stored bar under the record's key the verdict is
\* Skipped exactly when each of the five fields differs by at most 0.001
\* and Conflict exactly when at least one differs by more than 0.001.
C15_ToleranceInclusive ==
    [][RowProcessed =>
        \A b \in KeyedNow :
            /\ VerdictSkipped <=>
                 \A d \in FieldDiffs(b, ParseRow(call.file[pos], call.source)) :
                     d <= Tolerance
            /\ VerdictConflict <=>
                 \E d \in FieldDiffs(b, ParseRow(call.file[pos], call.source)) :
                     d > Tolerance]_vars

\* C15 amended: the verdict is Skipped exactly when each of the five fields
\* differs by less than 0.001, and Conflict exactly when at least one
\* differs by 0.001 or more.
C15_ToleranceStrict ==
    [][RowProcessed =>
        \A b \in KeyedNow :
            /\ VerdictSkipped <=>
                 \A d \in FieldDiffs(b, ParseRow(call.file[pos], call.source)) :
                     d < Tolerance
            /\ VerdictConflict <=>
                 \E d \in FieldDiffs(b, ParseRow(call.file[pos], call.source)) :
                     d >= Tolerance]_vars

\* A record whose volume alone differs from the stored one, by exactly
\* 0.001, has been classified a conflict.
C15_Witness ==
    /\ pc = "ingest"
    /\ stats.conflicts = 1
    /\ FieldDiffs(stats.conflict_details[1].existing,
                  stats.conflict_details[1].new) = {0, Tolerance}
    /\ Abs(stats.conflict_details[1].existing.volume
             - stats.conflict_details[1].new.volume) = Tolerance

\* The steps of ingest_csv that end the call: the exception, the return.
RowRaises == pc = "ingest" /\ pc' = "idle" /\ ~last'.ok
CallReturns == pc = "ingest" /\ pc' = "idle" /\ last'.ok

\* The record at pos cannot be parsed, or falls on a local Saturday.
FatalRecord ==
    \/ ~ParseRow(call.file[pos], call.source).ok
    \/ is_saturday(ParseRow(call.file[pos], call.source).timestamp)

\* C16: a record classified Conflict does not end the call: the loop goes
\* on with the next record, only a record that cannot be parsed or falls on
\* a Saturday raises, and a call that met conflicts returns its report once
\* every record is counted, with the bars its other records inserted
\* committed.
C16_ConflictContinues ==
    [][/\ (RowProcessed /\ VerdictConflict) => pc' = "ingest" /\ db' = db
       /\ RowRaises => FatalRecord
       /\ (CallReturns /\ stats.conflicts > 0) =>
             /\ pos = Len(call.file) + 1
             /\ stats.inserted + stats.skipped + stats.conflicts
                   = Len(call.file)
             /\ last'.stats = stats
             /\ db'.bars = conn.bars
             /\ Len(db'.bars) = Len(before.bars) + stats.inserted]_vars

\* A call has returned whose first record was a conflict and whose second
\* record was inserted and committed.
C16_Witness ==
    /\ Returned("ingest")
    /\ Len(last.call.file) = 2
    /\ last.stats.conflicts = 1
    /\ last.stats.inserted = 1
    /\ last.stats.conflict_details[1].timestamp
          = ParseRow(last.call.file[1], last.call.source).timestamp
    /\ \E b \in BarsOf(db) \ BarsOf(before) :
          b.timestamp = ParseRow(last.call.file[2], last.call.source).timestamp

\* The timestamp of the record at pos is read and falls on a local Saturday.
SaturdayRecord ==
    /\ pc = "ingest"
    /\ pos <= Len(call.file)
    /\ parse_timestamp(call.file[pos], call.source).ok
    /\ is_saturday(parse_timestamp(call.file[pos], call.source).val)

\* The call ends at the record at pos: nothing later is processed, no
\* report is returned and nothing of the batch is kept.
AbortsHere ==
    /\ pc' = "idle"
    /\ ~last'.ok
    /\ last'.stats = EmptyStats
    /\ last'.partial = stats
    /\ db' = before
    /\ conn' = before

\* The error raised carries the timestamp of the record at pos and the file.
CarriesContext ==
    /\ last'.error.kind = "saturday"
    /\ last'.error.timestamp
          = parse_timestamp(call.file[pos], call.source).val
    /\ last'.error.file = call.file

SaturdayDate(date) == (DateOrdinal(date) + 3) % 7 = SATURDAY

\* C18: no session that holds an ingested bar has a trade_day_date that is
\* a Saturday, and no stored bar has a timestamp that falls on a local
\* Saturday.
C18_NoSaturdaySession ==
    /\ \A b \in BarsOf(db) : ~is_saturday(b.timestamp)
    /\ \A td \in TradeDaysOf(db) :
          (\E b \in BarsOf(db) : b.trade_day_id = td.id)
             => ~SaturdayDate(td.session_date)

\* The halt routing of the bars of a store.
HaltRouted(store) ==
    \A b \in BarsOf(store) :
        /\ b.trade_day_id = NULL <=> b.halt_period = 1
        /\ b.halt_period = 1 <=> get_pt_datetime(b.timestamp).hour = HALT_HOUR
        /\ b.halt_period # 1 =>
              \E td \in TradeDaysOf(store) :
                  /\ td.id = b.trade_day_id
                  /\ TradeDay(td.session_date) = resolve_trade_day(b.timestamp)

\* C21: in every store state a bar has no session exactly when its halt
\* flag is set, its halt flag is set exactly when the local hour of its
\* timestamp is 14, and a non-halt bar references the session dated
\* resolve_trade_day of its timestamp.
C21_HaltRouting == HaltRouted(db) /\ (pc = "ingest" => HaltRouted(conn))

\* A committed store with a halt bar without session and a bar in a session.
C21_Witness ==
    /\ Returned("ingest")
    /\ \E b \in BarsOf(db) : b.halt_period = 1 /\ b.trade_day_id = NULL
    /\ \E b \in BarsOf(db) : b.halt_period = 0 /\ b.trade_day_id # NULL

\* An ingest_csv call on a store without bars has returned; its file has
\* three rows, the second equal to the first, the third with the first's
\* time and a close that differs from the first's by at least least.
BatchOfThree(least) ==
    /\ Returned("ingest")
    /\ before.bars = <<>>
    /\ Len(last.call.file) = 3
    /\ last.call.file[2] = last.call.file[1]
    /\ last.call.file[3].time = last.call.file[1].time
    /\ Abs(ParseRow(last.call.file[3], last.call.source).close
             - ParseRow(last.call.file[1], last.call.source).close) >= least

\* The report and the store of the claim: one inserted, one skipped, one
\* conflict whose detail names the first row's timestamp, and the one stored
\* bar holds the first row's values.
FirstRowWon ==
    /\ last.stats.inserted = 1
    /\ last.stats.skipped = 1
    /\ last.stats.conflicts = 1
    /\ Len(last.stats.conflict_details) = 1
    /\ last.stats.conflict_details[1].timestamp
          = ParseRow(last.call.file[1], last.call.source).timestamp
    /\ last.stats.conflict_details[1].reason = "OHLCV mismatch"
    /\ Len(db.bars) = 1
    /\ OHLCV(db.bars[1]) = OHLCV(ParseRow(last.call.file[1], last.call.source))
    /\ db.bars[1].timestamp
          = ParseRow(last.call.file[1], last.call.source).timestamp

\* C25 as stated: in a 3-row batch on an empty store whose row 2 repeats
\* row 1 and whose row 3 has row 1's timestamp and any different close, the
\* report is inserted 1, skipped 1, conflicts 1 with one detail for row 1's
\* timestamp, and the stored bar holds row 1's values.
C25_AnyDifferentClose == BatchOfThree(1) => FirstRowWon

\* C25 amended: the same where row 3's close differs from row 1's by 0.001
\* or more; the records are classified in order against the bars the
\* earlier records of the uncommitted batch inserted.
C25_BatchClassifiedInOrder == BatchOfThree(Tolerance) => FirstRowWon

\* The batch A, A, A3 has been ingested into an empty store.
C25_Witness ==
    /\ BatchOfThree(Tolerance)
    /\ last.call.file = <<RowA, RowA, RowA3>>
    /\ last.stats.conflicts = 1
    /\ db.bars[1].close = ParseRow(RowA, TRADINGVIEW).close

-----------------------------------------------------------------------------
(* Properties of the annotation ledger (checked under Spec)                *)

Ids(rows) == {rows[i].id : i \in 1..Len(rows)}

\* The annotations of a note's symbol and date with the given status.
QueryIds(store, note, status) ==
    Ids(get_day_annotations(store, note.symbol, note.session_date,
                            note.session_date, NoTags, status, NoType))

\* save_day_annotation has returned B, created with supersedes_id naming an
\* annotation A that was active and of B's session.
SupersededActive ==
    /\ Returned("save")
    /\ last.call.supersedes_id \in 1..Len(before.day_annotations)
    /\ before.day_annotations[last.call.supersedes_id].status = ACTIVE
    /\ before.day_annotations[last.call.supersedes_id].trade_day_id
          = db.day_annotations[last.id].trade_day_id

\* C10 as stated: A is superseded, B is active, the active annotations of
\* A's date are exactly B and the superseded ones exactly A.
C10_QueriesReturnOnlyAB ==
    SupersededActive =>
        LET a == last.call.supersedes_id
            b == last.id
        IN  /\ db.day_annotations[a].status = SUPERSEDED
            /\ db.day_annotations[b].status = ACTIVE
            /\ QueryIds(db, last.call.note, ACTIVE) = {b}
            /\ QueryIds(db, last.call.note, SUPERSEDED) = {a}

\* C10 amended: A is superseded and B is active; the active annotations of
\* A's date are those that were active before, without A and with B, and
\* the superseded ones are those that were superseded before, with A.
C10_SupersessionMovesA ==
    SupersededActive =>
        LET a == last.call.supersedes_id
            b == last.id
        IN  /\ db.day_annotations[a].status = SUPERSEDED
            /\ db.day_annotations[b].status = ACTIVE
            /\ QueryIds(db, last.call.note, ACTIVE)
                  = (QueryIds(before, last.call.note, ACTIVE) \ {a}) \cup {b}
            /\ QueryIds(db, last.call.note, SUPERSEDED)
                  = QueryIds(before, last.call.note, SUPERSEDED) \cup {a}

C10_Witness ==
    /\ SupersededActive
    /\ QueryIds(db, last.call.note, ACTIVE) = {last.id}
    /\ QueryIds(db, last.call.note, SUPERSEDED) = {last.call.supersedes_id}

AnnotationsOf(store) ==
    {store.day_annotations[i] : i \in 1..Len(store.day_annotations)}

\* The other annotations whose supersedes_id names a.
Successors(store, a) ==
    {b \in AnnotationsOf(store) : b.supersedes_id = a.id /\ b.id # a.id}

\* Every annotation of old is in new with the supersedes_id it had.
LinksKept(old, new) ==
    /\ Len(new.day_annotations) >= Len(old.day_annotations)
    /\ \A i \in 1..Len(old.day_annotations) :
          /\ new.day_annotations[i].id = old.day_annotations[i].id
          /\ new.day_annotations[i].supersedes_id
                = old.day_annotations[i].supersedes_id

\* C11: in every state of the ledger each annotation is named as
\* supersedes_id by at most one other annotation, and an annotation's
\* supersedes_id never changes after its creation.
C11_SingleSuccessor ==
    [][/\ \A a \in AnnotationsOf(db') : Cardinality(Successors(db', a)) <= 1
       /\ LinksKept(db, db')]_vars

\* C12: the committed store never shows the steps of a running
\* save_day_annotation; in it, an annotation created to supersede an
\* earlier one has that one superseded, and a superseded annotation has the
\* annotation that names it.
C12_SupersessionAtomic ==
    /\ pc \in {"supersede", "save"} => db = before
    /\ \A b \in AnnotationsOf(db) :
          b.supersedes_id \in 1..(b.id - 1)
             => db.day_annotations[b.supersedes_id].status = SUPERSEDED
    /\ \A a \in AnnotationsOf(db) :
          a.status = SUPERSEDED
             => \E b \in AnnotationsOf(db) : b.supersedes_id = a.id

\* The commit that publishes B and the flip of its active predecessor.
C12_Witness ==
    /\ Returned("save")
    /\ last.call.supersedes_id \in 1..Len(before.day_annotations)
    /\ before.day_annotations[last.call.supersedes_id].status = ACTIVE
    /\ Len(db.day_annotations) = Len(before.day_annotations) + 1
    /\ db.day_annotations[last.id].status = ACTIVE
    /\ db.day_annotations[last.call.supersedes_id].status = SUPERSEDED

RowsOf(rows) == {rows[i] : i \in 1..Len(rows)}
TagsOf(tags) == {tags[i] : i \in 1..Len(tags)}

\* The queries of the tag claims: tag filters that share one, none or all of
\* their tags with a stored annotation, over both symbols, the statuses and
\* the types.
TagFilters == {<<"trend_day", "reversal">>, <<"momentum">>, <<"breakout">>}
QuerySymbols == {"ES", "NQ"}
QueryStatuses == {ACTIVE, ALL}
QueryTypes == {NoType, "observation"}

\* C13: with a non-empty tag filter, get_day_annotations returns exactly
\* the annotations the same query without the tag filter returns that hold
\* at least one of the requested tags.
C13_TagFilterIsOr ==
    Returned("save") =>
        \A tags \in TagFilters, symbol \in QuerySymbols,
           status \in QueryStatuses, annotation_type \in QueryTypes :
            RowsOf(get_day_annotations(db, symbol, Jan08, Jan09, tags,
                                       status, annotation_type))
              = {r \in RowsOf(get_day_annotations(db, symbol, Jan08, Jan09,
                                  NoTags, status, annotation_type)) :
                    TagsOf(r.tags) \cap TagsOf(tags) # {}}

\* An annotation tagged momentum and trend_day is returned for the filter
\* [trend_day, reversal] and not for the filter [breakout].
C13_Witness ==
    /\ Returned("save")
    /\ \E r \in RowsOf(get_day_annotations(db, "ES", Jan08, Jan09,
                           <<"trend_day", "reversal">>, ACTIVE, NoType)) :
          TagsOf(r.tags) = {"momentum", "trend_day"}
    /\ get_day_annotations(db, "ES", Jan08, Jan09, <<"breakout">>, ACTIVE,
                           NoType) = <<>>

\* C19: immediately after every successful save_day_annotation, whatever
\* supersedes_id it was given, the annotation whose id is returned exists
\* with status active.
C19_NewAnnotationActive ==
    Returned("save") =>
        /\ last.id \in 1..Len(db.day_annotations)
        /\ db.day_annotations[last.id].id = last.id
        /\ db.day_annotations[last.id].status = ACTIVE

\* save_day_annotation has returned from a call whose supersedes_id named
\* no annotation of the ledger, or one that was already superseded.
SupersededNothing ==
    /\ Returned("save")
    /\ last.call.supersedes_id # NULL
    /\ \/ last.call.supersedes_id > Len(before.day_annotations)
       \/ before.day_annotations[last.call.supersedes_id].status = SUPERSEDED

\* C20: such a call returns a new id, adds exactly one annotation and
\* leaves every other annotation as it was.
C20_DanglingSupersedesAccepted ==
    SupersededNothing =>
        /\ last.id = Len(before.day_annotations) + 1
        /\ Len(db.day_annotations) = Len(before.day_annotations) + 1
        /\ db.day_annotations[last.id].id = last.id
        /\ db.day_annotations[last.id].supersedes_id = last.call.supersedes_id
        /\ \A i \in 1..Len(before.day_annotations) :
              db.day_annotations[i] = before.day_annotations[i]

\* The predecessor named was already superseded, by an annotation that is
\* still active.
C20_Witness ==
    /\ SupersededNothing
    /\ last.call.supersedes_id <= Len(before.day_annotations)
    /\ db.day_annotations[last.call.supersedes_id].status = SUPERSEDED
    /\ \E b \in AnnotationsOf(before) :
          /\ b.supersedes_id = last.call.supersedes_id
          /\ b.status = ACTIVE
          /\ db.day_annotations[b.id].status = ACTIVE

\* The id named is neither in the ledger nor the one allocated by the call.
C20_WitnessStray ==
    /\ SupersededNothing
    /\ last.call.supersedes_id > Len(db.day_annotations)
    /\ db.day_annotations[last.id].status = ACTIVE
    /\ Len(db.day_annotations) > 1

\* From old to new no annotation is removed, and a status that changes goes
\* from active to superseded, on the annotation with the id named.
StatusMonotone(old, new, named) ==
    /\ Len(new.day_annotations) >= Len(old.day_annotations)
    /\ \A i \in 1..Len(old.day_annotations) :
          /\ new.day_annotations[i].id = old.day_annotations[i].id
          /\ new.day_annotations[i].status # old.day_annotations[i].status =>
                /\ old.day_annotations[i].status = ACTIVE
                /\ new.day_annotations[i].status = SUPERSEDED
                /\ old.day_annotations[i].id = named

\* The supersedes_id of the save that is running, if one is.
NamedNow == IF pc \in {"supersede", "save"} THEN call.supersedes_id ELSE NULL

\* C22: an annotation's status changes only from active to superseded and
\* only in a save that names it as supersedes_id; a superseded annotation
\* stays superseded and no annotation is removed (in the committed store,
\* and in the running save's view of it).
C22_StatusMonotone ==
    [][/\ StatusMonotone(db, db', NamedNow)
       /\ pc = "supersede" => StatusMonotone(conn, conn', NamedNow)]_vars

\* A save has flipped the annotation it named and left another active
\* annotation as it was.
C22_Witness ==
    /\ Returned("save")
    /\ last.call.supersedes_id \in 1..Len(before.day_annotations)
    /\ before.day_annotations[last.call.supersedes_id].status = ACTIVE
    /\ db.day_annotations[last.call.supersedes_id].status = SUPERSEDED
    /\ \E a \in AnnotationsOf(before) :
          /\ a.id # last.call.supersedes_id
          /\ a.status = ACTIVE
          /\ db.day_annotations[a.id].status = ACTIVE

-----------------------------------------------------------------------------
(* Properties of the session directory (checked under Spec)                *)

\* No two sessions of the store share (symbol, session_date, source).
UniqueSessions(store) ==
    \A i, j \in 1..Len(store.trade_days) :
        (/\ store.trade_days[i].symbol = store.trade_days[j].symbol
         /\ store.trade_days[i].session_date = store.trade_days[j].session_date
         /\ store.trade_days[i].source = store.trade_days[j].source) => i = j

\* Every session of old is in new, at its place and with its values.
SessionsKept(old, new) ==
    /\ Len(new.trade_days) >= Len(old.trade_days)
    /\ \A i \in 1..Len(old.trade_days) : new.trade_days[i] = old.trade_days[i]

\* A second get_or_create_trade_day for the same key returns the id of the
\* first and writes nothing.
SameIdAgain(symbol, session_date, source, first_call) ==
    get_or_create_trade_day(symbol, session_date, source, first_call.store)
        = first_call

QuerySources == {TRADINGVIEW, "csv"}
QueryDates == {Jan08, Jan09}

\* C14: in every state there is at most one session per (symbol, date,
\* source); get_or_create_trade_day returns the same id for the same key on
\* every call; a committed session is never changed and never removed.
\* Each part is evaluated on the steps that change the sessions it reads.
C14_SessionDirectory ==
    [][/\ db' # db => UniqueSessions(db') /\ SessionsKept(db, db')
       /\ conn'.trade_days # conn.trade_days =>
             /\ UniqueSessions(conn')
             /\ \A symbol \in QuerySymbols, session_date \in QueryDates,
                   source \in QuerySources :
                    SameIdAgain(symbol, session_date, source,
                        get_or_create_trade_day(symbol, session_date, source,
                                                conn'))]_vars

\* An annotation is saved for the session a bar was ingested into: the
\* session is found, not created again.
C14_Witness ==
    /\ Returned("save")
    /\ Len(before.trade_days) = 1
    /\ db.trade_days = before.trade_days
    /\ \E b \in BarsOf(db) :
          b.trade_day_id = db.day_annotations[last.id].trade_day_id

-----------------------------------------------------------------------------
(* Properties of the store as a whole and of get_bars (checked under Spec) *)

\* The session ids the bars and the annotations of a store refer to.
SessionRefs(store) ==
    {b.trade_day_id : b \in BarsOf(store)}
        \cup {a.trade_day_id : a \in AnnotationsOf(store)}

\* Every session of the store is referred to by a bar or an annotation, and
\* every reference other than NULL is the id of a session of the store.
NoOrphanNoDangling(store) ==
    /\ \A td \in TradeDaysOf(store) : td.id \in SessionRefs(store)
    /\ \A ref \in SessionRefs(store) \ {NULL} :
          \E td \in TradeDaysOf(store) : td.id = ref

\* C26: in every committed store, the one an ingestion that raised before
\* its commit leaves included, no session is without a bar or an annotation
\* and no bar or annotation refers to a session that is not stored.
C26_NoOrphanNoDangling == NoOrphanNoDangling(db)

\* An ingest_csv that had created a session and inserted its bar raised on a
\* later row: the committed store has neither, and keeps the session and
\* the bar of the call before.
C26_Witness ==
    /\ Raised("ingest")
    /\ last.partial.inserted > 0
    /\ Len(db.trade_days) > 0
    /\ db = before
    /\ \E b \in BarsOf(db) : b.trade_day_id # NULL

\* C27: when ingest_csv returns, inserted + skipped + conflicts is the
\* number of records of the batch, conflicts is the length of
\* conflict_details, and the store holds inserted more bars than before the
\* call.
C27_ReportAccounting ==
    Returned("ingest") =>
        /\ last.stats.inserted + last.stats.skipped + last.stats.conflicts
              = Len(last.call.file)
        /\ last.stats.conflicts = Len(last.stats.conflict_details)
        /\ Len(db.bars) = Len(before.bars) + last.stats.inserted

\* A batch with one record of each verdict has returned.
C27_Witness ==
    /\ Returned("ingest")
    /\ Len(last.call.file) = 3
    /\ last.call.file[2] = RowA1
    /\ last.stats.inserted = 1
    /\ last.stats.skipped = 1
    /\ Len(last.stats.conflict_details) = 1
    /\ Len(db.bars) = 1

\* The date filters of a get_bars query: none, one session, a range.
BarQueryDates ==
    {<<NULL, NULL, NULL>>, <<Jan08, NULL, NULL>>, <<NULL, Jan08, Jan09>>,
     <<NULL, Jan08, NULL>>}

\* The dictionaries of a sequence, as a set.
Range(seq) == {seq[i] : i \in 1..Len(seq)}

\* C28: whatever is stored once a call has ended, get_bars with
\* include_halt true returns the same bars as with include_halt false, and
\* none of them is a halt-period bar.
C28_GetBarsNeverHalt ==
    pc = "idle" =>
        \A symbol \in QuerySymbols, source \in QuerySources,
           dates \in BarQueryDates :
            /\ get_bars(db, symbol, dates[1], dates[2], dates[3], TRUE, source)
                  = get_bars(db, symbol, dates[1], dates[2], dates[3], FALSE,
                             source)
            /\ \A d \in Range(get_bars(db, symbol, dates[1], dates[2],
                                       dates[3], TRUE, source)) :
                  ~d.halt_period

\* A halt bar and a session bar of ES are stored, and get_bars with
\* include_halt returns the session bar alone.
C28_Witness ==
    /\ Returned("ingest")
    /\ \E b \in BarsOf(db) : b.halt_period = 1
    /\ Len(get_bars(db, "ES", NULL, NULL, NULL, TRUE, TRADINGVIEW)) = 1
    /\ Len(db.bars) = 2

\* The stored bars with a timestamp under the sessions of a (symbol, source).
PairBars(store, symbol, source, timestamp) ==
    {b \in BarsOf(store) :
        /\ b.timestamp = timestamp
        /\ \E td \in TradeDaysOf(store) :
              /\ td.id = b.trade_day_id
              /\ td.symbol = symbol
              /\ td.source = source}

\* The record at pos is counted as inserted and a bar is added.
VerdictInserted ==
    /\ stats'.inserted = stats.inserted + 1
    /\ stats'.skipped = stats.skipped
    /\ stats'.conflicts = stats.conflicts
    /\ Len(conn'.bars) = Len(conn.bars) + 1

\* What C29 says of the record at pos, own being the bars stored with its
\* timestamp under the call's symbol and source.
OwnPairDecides(own) ==
    /\ own = {} => VerdictInserted
    /\ (VerdictSkipped \/ VerdictConflict) => own # {}
    /\ VerdictConflict =>
          stats'.conflict_details[Len(stats'.conflict_details)].existing
              \in {OHLCV(b) : b \in own}

\* The record rec at pos is not a halt-period record.
NonHalt(rec) == get_pt_datetime(rec.timestamp).hour # HALT_HOUR

\* C29: a non-halt record is inserted whenever no bar with its timestamp is
\* stored under the same (symbol, source), whatever is stored under other
\* symbols and sources, and it is skipped or in conflict only against a bar
\* of its own (symbol, source).
C29_PairsIndependent ==
    [][(RowProcessed /\ NonHalt(ParseRow(call.file[pos], call.source))) =>
          OwnPairDecides(PairBars(conn, call.symbol, call.source,
                                  ParseRow(call.file[pos],
                                           call.source).timestamp))]_vars

\* A record was inserted under one symbol although a bar with its timestamp
\* and another close was stored under another symbol.
C29_Witness ==
    /\ Returned("ingest")
    /\ last.stats.inserted = 1
    /\ \E b \in BarsOf(before), c \in BarsOf(db) \ BarsOf(before) :
          /\ c.timestamp = b.timestamp
          /\ c.halt_period = 0
          /\ b.halt_period = 0
          /\ c.trade_day_id # b.trade_day_id
          /\ Abs(c.close - b.close) > Tolerance

\* The annotation the save that returned has stored.
SavedAnnotation == db.day_annotations[last.id]

\* C30: the annotation a save stores is attached to the session keyed by the
\* call's symbol and session_date and the source "tradingview", which the
\* save creates if it is not stored; the call's source argument is kept on
\* the annotation and no session of another source is created.
C30_SaveUsesTradingviewSession ==
    Returned("save") =>
        /\ \E td \in TradeDaysOf(db) :
              /\ td.id = SavedAnnotation.trade_day_id
              /\ td.symbol = last.call.note.symbol
              /\ td.session_date = last.call.note.session_date
              /\ td.source = TRADINGVIEW
        /\ SavedAnnotation.source = last.call.note.source
        /\ \A td \in TradeDaysOf(db) \ TradeDaysOf(before) :
              /\ td.id = SavedAnnotation.trade_day_id
              /\ td.source = TRADINGVIEW
        /\ TradeDaysOf(before) \subseteq TradeDaysOf(db)

\* A save with source "csv" has created a "tradingview" session for its
\* annotation.
C30_Witness ==
    /\ Returned("save")
    /\ last.call.note.source = "csv"
    /\ SavedAnnotation.source = "csv"
    /\ \E td \in TradeDaysOf(db) \ TradeDaysOf(before) :
          /\ td.id = SavedAnnotation.trade_day_id
          /\ td.source = TRADINGVIEW

-----------------------------------------------------------------------------
(* Properties of the shared database (checked under SpecShared)            *)

\* The indexes of the trade_days rows stored under a key.
SessionRows(store, symbol, session_date, source) ==
    {i \in 1..Len(store.trade_days) :
        /\ store.trade_days[i].symbol = symbol
        /\ store.trade_days[i].session_date = session_date
        /\ store.trade_days[i].source = source}

\* No key has two rows in the store.
AtMostOneRow(store) ==
    \A key \in SharedKeys :
        Cardinality(SessionRows(store, key[1], key[2], key[3])) <= 1

\* No writer is inside a call.
AllSettled == \A w \in Writers : wr[w].pc = "idle"

\* Writers v and w have both run get_or_create_trade_day, for the same key.
SameKey(v, w) ==
    /\ wr[v].rounds > 0
    /\ wr[w].rounds > 0
    /\ wr[v].symbol = wr[w].symbol
    /\ wr[v].session_date = wr[w].session_date
    /\ wr[v].source = wr[w].source

\* C23: when writers interleave the lookup and the insert of
\* get_or_create_trade_day, no store (the committed one, a writer's
\* uncommitted view) ever holds two session rows for a key, and once the
\* writers have finished the committed store holds exactly one row for the
\* key two writers both asked for (and for the key of any writer that was
\* not turned away by the write lock).
C23_ConcurrentCreateConverges ==
    /\ AtMostOneRow(db)
    /\ \A w \in Writers : wr[w].pc = "inserted" => AtMostOneRow(wr[w].view)
    /\ AllSettled =>
          \A w \in Writers :
              /\ wr[w].rounds > 0
              /\ \/ wr[w].error # "OperationalError"
                 \/ \E v \in Writers \ {w} : SameKey(v, w)
              => Cardinality(SessionRows(db, wr[w].symbol,
                                        wr[w].session_date,
                                        wr[w].source)) = 1

\* Both writers looked the same key up and found nothing, one inserted and
\* committed, the other's INSERT was rejected, and one row is stored.
C23_Witness ==
    /\ AllSettled
    /\ wr[1].rounds > 0 /\ wr[2].rounds > 0
    /\ wr[1].found = 0 /\ wr[2].found = 0
    /\ wr[1].symbol = wr[2].symbol
    /\ wr[1].session_date = wr[2].session_date
    /\ {wr[1].error, wr[2].error} = {"", "IntegrityError"}
    /\ Cardinality(SessionRows(db, wr[1].symbol, wr[1].session_date,
                               wr[1].source)) = 1

\* C24: a call of init_database on a database that has the three tables
\* raises nothing and leaves the sessions, bars and annotations as they were.
C24_InitIdempotent ==
    [][inits'.n # inits.n =>
          /\ inits'.ok
          /\ db'.trade_days = db.trade_days
          /\ db'.bars = db.bars
          /\ db'.day_annotations = db.day_annotations
          /\ DOMAIN db' = DOMAIN db]_vars

\* init_database has run again on a database holding a session two writers
\* raced for, a bar and an annotation, and it holds them still.
C24_Witness ==
    /\ inits.n > 0
    /\ inits.ok
    /\ Len(db.bars) > 0
    /\ Len(db.day_annotations) > 0
    /\ Len(db.trade_days) > 2

====
